---- MODULE Spec2Model ----
(***************************************************************************)
(* A model of rakoshare's piece-addressed file store (fileStore,           *)
(* fileEntry) and of its control session (ControlSession).                 *)
(***************************************************************************)
EXTENDS Integers, Sequences, FiniteSets, TLC

(***************************************************************************)
(* Bounds of the model.                                                    *)
(***************************************************************************)
MaxFiles == 3
MaxFileLen == 2
MaxBuf == 2
MaxConns == 3
NumAddrs == 3
MaxSetCurrent == 2
\* Stands for the program's MAX_NUM_PEERS, which is set outside the files
\* modelled here; only its role as the cap of AddPeer matters.
MAX_NUM_PEERS == 2

VARIABLES
    \* ---- file store ----
    files,       \* fileStore.files: sequence of [length, name]
    offsets,     \* fileStore.offsets: sequence of global offsets
    fsys,        \* the file system: file name -> contents (sequence of bytes)
    lastOp,      \* the last store operation, its arguments and what it returned
    \* ---- control session ----
    peers,       \* cs.peers: remote address -> peer state (a connection)
    currentIH,   \* cs.currentIH
    rev,         \* cs.rev, a string (sequence of characters)
    currentFile, \* the file {bitshareDir}/current
    conns,       \* connections: the connector/accept task and, once
                 \* admitted, the peerState
    nconn,       \* connections created so far
    acceptor,    \* the connection AcceptNewPeer is admitting, or 0
    frames,      \* frames queued to peers (sendMessage, SendExtensions)
    loopPc,      \* the event loop Run: "select", "send_torrents", "quit_deadlock", "exited" or "panicked"
    callerPc,    \* the goroutine calling SetCurrent and Quit
    callerIh,    \* SetCurrent's argument ih
    now,         \* the clock, in seconds
    lastReadTime,\* peerState.lastReadTime of each connection; 0 is the zero time
    kicked,      \* the peers the last keep-alive tick called keepAlive on
    pending,     \* the Announce DoMetadata is sending on cs.Torrents
    torrents,    \* the Announces received from cs.Torrents
    hbChan,      \* the heartbeat channel: how many heartbeats it holds
    tickDue,     \* rechokeChan holds a tick
    detPc,       \* deadlockDetector: "select", "stopped" or "panicked"
    lastHeartbeat, \* deadlockDetector's lastHeartbeat
    timerStart,  \* when deadlockDetector's time.After was started
    \* ---- history ----
    missed,      \* a re-choke tick went by without the loop taking it
    nSet,        \* SetCurrent calls completed since construction
    rev0,        \* cs.rev as NewControlSession set it
    prevFile,    \* the current file as the running SetCurrent found it
    assigned,    \* the <<info-hash, rev>> pairs construction and SetCurrent made
    \* ---- construction of one entry of a store ----
    srcPath,     \* src.Path of a FileDict: a sequence of path components
    backing,     \* the directory made and the backing file opened for it
    \* ---- metainfo parsing ----
    torrent,     \* the content handed to NewMetaInfoFromContent
    metaInfo     \* what NewMetaInfoFromContent returned: (m, err)

fsVars == <<files, offsets, fsys, lastOp>>
loopVars == <<now, lastReadTime, kicked, pending, torrents, hbChan, tickDue, detPc,
              lastHeartbeat, timerStart, missed>>
csVars == <<peers, currentIH, rev, currentFile, conns, nconn, acceptor, frames, loopPc,
            callerPc, callerIh, nSet, rev0, prevFile, assigned, loopVars>>
pathVars == <<srcPath, backing>>
metaVars == <<torrent, metaInfo>>
vars == <<files, offsets, fsys, lastOp, peers, currentIH, rev, currentFile,
          conns, nconn, acceptor, frames, loopPc, callerPc, callerIh, nSet,
          rev0, prevFile, srcPath, backing, torrent, metaInfo, now,
          lastReadTime, kicked, pending, torrents, hbChan, tickDue, detPc,
          lastHeartbeat, timerStart, missed, assigned>>

(***************************************************************************)
(* Bytes: zero and one non-zero value stand for the 256 byte values.       *)
(***************************************************************************)
Bytes == {0, 1}
\* What a caller's buffer holds before ReadAt fills it: not zero.
Dirty == CHOOSE b \in Bytes : b # 0

Min(a, b) == IF a < b THEN a ELSE b
Max(a, b) == IF a > b THEN a ELSE b
Fill(k, b) == [i \in 1..k |-> b]

\* Base names of the backing files, one per entry, in store order.
BaseNames == <<"f1", "f2", "f3", "f4", "f5">>
PartSuffix == ".part"

(***************************************************************************)
(* The file system.                                                        *)
(***************************************************************************)
Exists(fs, name) == name \in DOMAIN fs
PutFile(fs, name, content) ==
    [x \in (DOMAIN fs) \cup {name} |-> IF x = name THEN content ELSE fs[x]]
RemoveFile(fs, name) == [x \in (DOMAIN fs) \ {name} |-> fs[x]]
\* os.Truncate: cut or extend with zeros; fails on a missing file.
TruncateFile(fs, name, length) ==
    IF ~Exists(fs, name) THEN fs
    ELSE PutFile(fs, name,
            [i \in 1..length |-> IF i <= Len(fs[name]) THEN fs[name][i] ELSE 0])
\* copyfile: fails (changing nothing) when the source cannot be opened.
copyfile(fs, fromname, toname) ==
    IF ~Exists(fs, fromname) THEN fs ELSE PutFile(fs, toname, fs[fromname])

(***************************************************************************)
(* fileEntry                                                               *)
(***************************************************************************)
isPart(fe) == Len(fe.name) > 0 /\ fe.name[Len(fe.name)] = PartSuffix

\* fileEntry.open: returns the entry and the file system it leaves.
open(fs, name, length) ==
    LET partname == Append(name, PartSuffix)
        fs1 == IF Exists(fs, partname) THEN RemoveFile(fs, partname) ELSE fs
        needToRetrieve == ~Exists(fs1, name) \/ Len(fs1[name]) # length
    IN  IF needToRetrieve
        THEN [fe |-> [length |-> length, name |-> partname],
              fs |-> PutFile(fs1, partname, Fill(length, 0))]
        ELSE [fe |-> [length |-> length, name |-> name], fs |-> fs1]

\* fileEntry.SetPart
SetPart(fs, fe) ==
    IF isPart(fe) THEN [fe |-> fe, fs |-> fs]
    ELSE LET pn == Append(fe.name, PartSuffix)
             fs1 == copyfile(fs, fe.name, pn)
         IN  [fe |-> [fe EXCEPT !.name = pn],
              fs |-> TruncateFile(fs1, pn, fe.length)]

\* fileEntry.ReadAt of k bytes at off: [data, n, err]. The open fails on a
\* missing file, file.ReadAt on a negative offset or a short file.
EntryReadAt(fs, fe, k, off) ==
    IF ~Exists(fs, fe.name) \/ off < 0 THEN [data |-> <<>>, n |-> 0, err |-> TRUE]
    ELSE LET c == fs[fe.name]
             got == Min(k, Max(0, Len(c) - off))
         IN  [data |-> SubSeq(c, off + 1, off + got), n |-> got, err |-> got < k]

\* fileEntry.WriteAt of p at off: [fs, n, err]
EntryWriteAt(fs, fe, p, off) ==
    IF ~Exists(fs, fe.name) \/ off < 0 THEN [fs |-> fs, n |-> 0, err |-> TRUE]
    ELSE LET c == fs[fe.name]
             newLen == Max(Len(c), off + Len(p))
             c2 == [i \in 1..newLen |->
                      IF i > off /\ i <= off + Len(p) THEN p[i - off]
                      ELSE IF i <= Len(c) THEN c[i] ELSE 0]
         IN  [fs |-> PutFile(fs, fe.name, c2), n |-> Len(p), err |-> FALSE]

\* strings.Replace(name, ".part", "", 1): the first ".part" is dropped.
RECURSIVE ReplaceFirstPart(_)
ReplaceFirstPart(name) ==
    IF name = <<>> THEN <<>>
    ELSE IF Head(name) = PartSuffix THEN Tail(name)
    ELSE <<Head(name)>> \o ReplaceFirstPart(Tail(name))

\* fileEntry.Cleanup: returns the entry and the file system it leaves.
EntryCleanup(fs, fe) ==
    IF isPart(fe)
    THEN LET realname == ReplaceFirstPart(fe.name)
             fs1 == copyfile(fs, fe.name, realname)
             fs2 == IF Exists(fs1, fe.name) THEN RemoveFile(fs1, fe.name) ELSE fs1
         IN  [fe |-> [fe EXCEPT !.name = realname], fs |-> fs2]
    ELSE [fe |-> fe, fs |-> fs]

(***************************************************************************)
(* fileStore                                                               *)
(***************************************************************************)
\* A slip in find's test: the entry's own offset, not the next entry's.
findPred_OwnOffset(offs, offset, i) ==
    IF i >= Len(offs) - 1 THEN TRUE ELSE offs[i + 1] >= offset

\* find's test of entry i (0-based): it is the last entry, or the next entry
\* starts at or after offset.
findPred(offs, offset, i) ==
    IF i >= Len(offs) - 1 THEN TRUE ELSE offs[i + 2] >= offset

\* sort.Search(n, f): binary search for the smallest i in [0, n) with f(i).
RECURSIVE SearchLoop(_, _, _, _)
SearchLoop(offs, offset, i, j) ==
    IF i < j
    THEN LET h == (i + j) \div 2
         IN  IF ~findPred(offs, offset, h) THEN SearchLoop(offs, offset, h + 1, j)
             ELSE SearchLoop(offs, offset, i, h)
    ELSE i

\* fileStore.find (0-based index, as in the code)
find(offs, offset) == SearchLoop(offs, offset, 0, Len(offs))

\* ReadAt without its last loop: the rest of the buffer is left as it was.
ZeroFill_Omitted(p) == Fill(p, Dirty)

\* The tail of ReadAt: what is left of the buffer lies beyond the store.
ZeroFill(p) == Fill(p, 0)

RECURSIVE ReadLoop(_, _, _, _, _, _, _, _)
ReadLoop(fl, offs, fs, p, index, off, n, out) ==
    IF p > 0 /\ index < Len(offs)
    THEN LET entry == fl[index + 1]
             itemOffset == off - offs[index + 1]
         IN  IF itemOffset < entry.length
             THEN LET space == entry.length - itemOffset
                      chunk == Min(p, space)
                      r == EntryReadAt(fs, entry, chunk, itemOffset)
                  IN  IF r.err
                      THEN [buf |-> out \o r.data \o Fill(p - r.n, Dirty),
                            n |-> n + r.n, err |-> TRUE]
                      ELSE ReadLoop(fl, offs, fs, p - r.n, index + 1,
                                    off + r.n, n + r.n, out \o r.data)
             ELSE ReadLoop(fl, offs, fs, p, index + 1, off, n, out)
    ELSE [buf |-> out \o ZeroFill(p), n |-> n, err |-> FALSE]

\* fileStore.ReadAt into a buffer of len bytes: [buf, n, err]
ReadAt(fl, offs, fs, len, off) ==
    ReadLoop(fl, offs, fs, len, find(offs, off), off, 0, <<>>)

\* Index (1-based) of the first non-zero byte of p, or 0.
FirstNonZero(p) ==
    IF \E i \in 1..Len(p) : p[i] # 0
    THEN CHOOSE i \in 1..Len(p) : p[i] # 0 /\ \A j \in 1..(i - 1) : p[j] = 0
    ELSE 0

RECURSIVE WriteLoop(_, _, _, _, _, _, _)
WriteLoop(fl, offs, fs, p, index, off, n) ==
    IF Len(p) > 0 /\ index < Len(offs)
    THEN LET entry == fl[index + 1]
             itemOffset == off - offs[index + 1]
         IN  IF itemOffset < entry.length
             THEN LET space == entry.length - itemOffset
                      chunk == Min(Len(p), space)
                      r == EntryWriteAt(fs, entry, SubSeq(p, 1, chunk), itemOffset)
                  IN  IF r.err
                      THEN [fs |-> r.fs, n |-> n + r.n, err |-> TRUE]
                      ELSE WriteLoop(fl, offs, r.fs, SubSeq(p, r.n + 1, Len(p)),
                                     index + 1, off + r.n, n + r.n)
             ELSE WriteLoop(fl, offs, fs, p, index + 1, off, n)
    ELSE IF FirstNonZero(p) # 0
         THEN [fs |-> fs, n |-> n + (FirstNonZero(p) - 1), err |-> TRUE]
         ELSE [fs |-> fs, n |-> n + Len(p), err |-> FALSE]

\* fileStore.WriteAt: [fs, n, err]
WriteAt(fl, offs, fs, p, off) ==
    WriteLoop(fl, offs, fs, p, find(offs, off), off, 0)

RECURSIVE SetBadLoop(_, _, _)
SetBadLoop(fl, fs, index) ==
    IF index < Len(fl)
    THEN LET r == SetPart(fs, fl[index + 1])
         IN  SetBadLoop([fl EXCEPT ![index + 1] = r.fe], r.fs, index + 1)
    ELSE [files |-> fl, fs |-> fs]

\* fileStore.SetBad: [files, fs]
SetBad(fl, offs, fs, from) == SetBadLoop(fl, fs, find(offs, from))

\* fileStore.Cleanup: "for _, fe := range f.files" hands each entry to
\* fe.Cleanup as a copy, so the new name is set on the copy and f.files keeps
\* the entries it had; the files on disk are copied and removed.
RECURSIVE CleanupLoop(_, _, _)
CleanupLoop(fl, fs, i) ==
    IF i <= Len(fl)
    THEN CleanupLoop(fl, EntryCleanup(fs, fl[i]).fs, i + 1)
    ELSE [files |-> fl, fs |-> fs]

\* fileStore.Cleanup: [files, fs]
Cleanup(fl, fs) == CleanupLoop(fl, fs, 1)

\* NewFileStore over entries of the given lengths: [files, offsets, fs, totalSize]
RECURSIVE NewFileStoreLoop(_, _, _, _, _, _)
NewFileStoreLoop(lens, fs, i, fl, offs, totalSize) ==
    IF i <= Len(lens)
    THEN LET r == open(fs, <<BaseNames[i]>>, lens[i])
         IN  NewFileStoreLoop(lens, r.fs, i + 1, Append(fl, r.fe),
                              Append(offs, totalSize), totalSize + lens[i])
    ELSE [files |-> fl, offsets |-> offs, fs |-> fs, totalSize |-> totalSize]

NewFileStore(lens, fs) == NewFileStoreLoop(lens, fs, 1, <<>>, <<>>, 0)

TotalSize == IF Len(files) = 0 THEN 0
             ELSE offsets[Len(offsets)] + files[Len(files)].length

\* Contents of the backing file of each entry.
EntryData == [i \in 1..Len(files) |->
                IF Exists(fsys, files[i].name) THEN fsys[files[i].name] ELSE <<>>]
EntryNames == [i \in 1..Len(files) |-> files[i].name]

NoOp == [op |-> "none", off |-> 0, buf |-> <<>>, n |-> 0, err |-> FALSE,
         wrote |-> FALSE, wbuf |-> <<>>, prevNames |-> <<>>, prevData |-> <<>>]

(***************************************************************************)
(* Strings are sequences of one-character strings.                         *)
(***************************************************************************)
Digits == <<"0", "1", "2", "3", "4", "5", "6", "7", "8", "9">>
IsDigit(ch) == \E d \in 1..10 : Digits[d] = ch
DigitVal(ch) == (CHOOSE d \in 1..10 : Digits[d] = ch) - 1
HexLetters == {"a", "b", "c", "d", "e", "f"}
IsHex(s) == \A i \in 1..Len(s) : IsDigit(s[i]) \/ s[i] \in HexLetters

\* strings.Split(s, sep) for a one-character separator.
RECURSIVE SplitLoop(_, _, _, _)
SplitLoop(s, sep, cur, acc) ==
    IF s = <<>> THEN Append(acc, cur)
    ELSE IF Head(s) = sep THEN SplitLoop(Tail(s), sep, <<>>, Append(acc, cur))
         ELSE SplitLoop(Tail(s), sep, Append(cur, Head(s)), acc)

Split(s, sep) == SplitLoop(s, sep, <<>>, <<>>)

RECURSIVE DigitsVal(_, _)
DigitsVal(s, acc) ==
    IF s = <<>> THEN acc ELSE DigitsVal(Tail(s), acc * 10 + DigitVal(Head(s)))

AllDigits(s) == s # <<>> /\ \A i \in 1..Len(s) : IsDigit(s[i])

\* strconv.Atoi: [ok, val]; an optional sign, then digits.
Atoi(s) ==
    IF AllDigits(s) THEN [ok |-> TRUE, val |-> DigitsVal(s, 0)]
    ELSE IF s # <<>> /\ Head(s) \in {"+", "-"} /\ AllDigits(Tail(s))
         THEN [ok |-> TRUE,
               val |-> IF Head(s) = "-" THEN 0 - DigitsVal(Tail(s), 0)
                       ELSE DigitsVal(Tail(s), 0)]
         ELSE [ok |-> FALSE, val |-> 0]

RECURSIVE NatDigits(_)
NatDigits(n) ==
    IF n < 10 THEN <<Digits[n + 1]>>
    ELSE Append(NatDigits(n \div 10), Digits[(n % 10) + 1])

\* strconv.Itoa
Itoa(n) == IF n < 0 THEN <<"-">> \o NatDigits(0 - n) ELSE NatDigits(n)

(***************************************************************************)
(* ControlSession: constants and the persisted marker                      *)
(***************************************************************************)
\* The listen port the session is constructed with.
Port == 6881
\* cs.PeerID and the peer-ids remote handshakes carry.
PeerID == "self"
RemoteIDs == {PeerID, "p1", "p2", "p3"}
Addrs == 1..NumAddrs
InfoHashes == {"ih1", "ih2"}
\* fmt.Sprintf("%x", sha1.Sum(...)): a hex string; the digest is not computed,
\* SetCurrent draws any of these.
Digests == {<<"a", "3">>, <<"2", "b">>}
ZeroRev == <<"0", "-">>

\* NewIHMessage
NewIHMessage(port, ih, r) == [infohash |-> ih, rev |-> r, port |-> port]

\* The file {bitshareDir}/current: absent, empty (created, nothing written
\* yet), or a bencoded IHMessage.
NoFile == [kind |-> "absent"]
EmptyFile == [kind |-> "empty"]
MsgFile(m) == [kind |-> "msg", msg |-> m]

\* The IHMessage NewControlSession decodes from the file; the zero value when
\* the file is absent or does not decode.
DecodeCurrent(f) ==
    IF f.kind = "msg" THEN f.msg ELSE NewIHMessage(0, "", <<>>)

\* NewControlSession: the revision it starts from.
RestoreRev(stored) ==
    IF stored # <<>>
    THEN LET parts == Split(stored, "2")
         IN  IF Len(parts) = 2 /\ Atoi(parts[1]).ok THEN stored ELSE ZeroRev
    ELSE ZeroRev

\* SetCurrent splitting the revision on "2", as NewControlSession does.
NextRev_SplitOn2(r, h) ==
    LET split == Split(r, "2")
        parts == IF Len(split) # 2 THEN <<<<"0">>, <<>>>> ELSE split
        a == Atoi(parts[1])
        counter == IF a.ok THEN a.val ELSE 0
    IN  Itoa(counter + 1) \o <<"-">> \o h

\* SetCurrent: the revision that follows r, h being the digest's hex string.
NextRev(r, h) ==
    LET split == Split(r, "-")
        parts == IF Len(split) # 2 THEN <<<<"0">>, <<>>>> ELSE split
        a == Atoi(parts[1])
        counter == IF a.ok THEN a.val ELSE 0
    IN  Itoa(counter + 1) \o <<"-">> \o h

(***************************************************************************)
(* Connections. A record is the connector or accept task of a connection   *)
(* and, from AddPeer's insert on, the peerState.                           *)
(***************************************************************************)
NoExtensions == <<>>
\* The m dictionaries remote extension handshakes carry.
ExtMaps == {("bs_metadata" :> 7), ("ut_pex" :> 1), ("bs_metadata" :> 263)}
\* byte(x) of an int: its low eight bits.
ToByte(x) == x % 256
HasExt(m, name) == name \in DOMAIN m
\* A lookup that loses the code the peer assigned.
ExtCode_Zero(m, name) == 0

\* Go's map read: the zero value for a missing key.
ExtCode(m, name) == IF name \in DOMAIN m THEN m[name] ELSE 0

EXTENSION_HANDSHAKE == 0
\* The message type of the extension protocol.
EXTENSION == 20
\* cs.ourExtensions: the codes we assign.
OurExtensions == (1 :> "ut_pex") @@ (2 :> "bs_metadata")
\* 15 * time.Second, the deadlock detector's patience.
DeadlockTimeout == 15
\* 3 * time.Minute, in seconds.
KeepAliveTimeout == 180
\* Stands for the program's TARGET_NUM_PEERS, set outside the files modelled
\* here.
TARGET_NUM_PEERS == 1
\* time.Time.Second(): the second within the minute.
Second(t) == t % 60

Unused == [addr |-> 0, id |-> "", pc |-> "unused",
           theirExtensions |-> NoExtensions]
\* A connection whose task has returned without admitting it.
Done == [Unused EXCEPT !.pc = "done"]

\* ControlSession.ihMessage: the frame [EXTENSION][code] + IHMessage.
ihMessage(ih, c) ==
    [to |-> c, type |-> EXTENSION,
     sub |-> ToByte(ExtCode(conns[c].theirExtensions, "bs_metadata")),
     body |-> NewIHMessage(Port, ih, rev)]
\* peerState.SendExtensions: our extension handshake.
ExtHandshakeFrame(c) ==
    [to |-> c, type |-> EXTENSION, sub |-> EXTENSION_HANDSHAKE,
     body |-> NewIHMessage(0, "", <<>>)]

\* An Announce; the endpoint is the remote IP and the advertised port.
Announce(ih, ip, port) == [none |-> FALSE, infohash |-> ih, ip |-> ip, port |-> port]
NoAnnounce == [none |-> TRUE, infohash |-> "", ip |-> 0, port |-> 0]

\* The state NewControlSession leaves, given the current file it finds.
Construct(f) ==
    /\ peers = <<>>
    /\ currentIH = DecodeCurrent(f).infohash
    /\ rev = RestoreRev(DecodeCurrent(f).rev)
    /\ rev0 = RestoreRev(DecodeCurrent(f).rev)
    /\ currentFile = f
    /\ conns = [c \in 1..MaxConns |-> Unused]
    /\ nconn = 0
    /\ acceptor = 0
    /\ frames = {}
    /\ loopPc = "select"
    /\ callerPc = "idle"
    /\ callerIh = ""
    /\ nSet = 0
    /\ prevFile = f
    /\ now = 1
    /\ lastReadTime = [c \in 1..MaxConns |-> 0]
    /\ kicked = {}
    /\ pending = NoAnnounce
    /\ torrents = {}
    /\ hbChan = 0
    /\ tickDue = FALSE
    /\ detPc = "select"
    /\ lastHeartbeat = 1
    /\ timerStart = 1
    /\ missed = FALSE
    /\ assigned = {<<DecodeCurrent(f).infohash, RestoreRev(DecodeCurrent(f).rev)>>}

\* No entry is being constructed.
NoPath ==
    /\ srcPath = <<>>
    /\ backing = [dir |-> <<>>, name |-> <<>>, done |-> FALSE]

\* A nil *InfoDict, a nil *MetaInfo.
NilInfo == [nil |-> TRUE, PieceLength |-> 0, Pieces |-> 0]
NilMeta == [nil |-> TRUE, Info |-> NilInfo, Announce |-> "", InfoHash |-> ""]
NotParsed == [done |-> FALSE, m |-> NilMeta, err |-> FALSE]
\* No metainfo is being parsed.
NoMeta ==
    /\ torrent = [bencode |-> FALSE, info |-> NilInfo, announce |-> ""]
    /\ metaInfo = NotParsed

NoStore ==
    /\ files = <<>>
    /\ offsets = <<>>
    /\ fsys = <<>>
    /\ lastOp = NoOp
    /\ NoPath
    /\ NoMeta

\* A first start: no current file.
Init == Construct(NoFile) /\ NoStore

(***************************************************************************)
(* The event loop, ControlSession.Run                                      *)
(***************************************************************************)
\* A DHT result or a tracker response delivers address a: a connector is
\* spawned unless the address is in the peer table.
LoopNewPeer(a) ==
    /\ loopPc = "select"
    /\ nconn < MaxConns
    /\ IF a \notin DOMAIN peers
       THEN /\ conns' = [conns EXCEPT ![nconn + 1] =
                            [Unused EXCEPT !.addr = a, !.pc = "connect"]]
            /\ nconn' = nconn + 1
       ELSE UNCHANGED <<conns, nconn>>
    /\ UNCHANGED <<peers, currentIH, rev, currentFile, frames, loopPc, callerPc,
                   callerIh, nSet, rev0, prevFile, acceptor>>
    /\ UNCHANGED <<assigned, fsVars, pathVars, metaVars, loopVars>>

\* ControlSession.ClosePeer
ClosePeer(c) ==
    /\ conns' = [conns EXCEPT ![c].pc = "closed"]
    /\ peers' = [a \in (DOMAIN peers) \ {conns[c].addr} |-> peers[a]]

\* ControlSession.DoHandshake
DoHandshake(c, m) ==
    /\ conns' = [conns EXCEPT ![c].theirExtensions = m]
    /\ frames' = frames \cup
          {[to |-> c, type |-> EXTENSION, sub |-> ToByte(ExtCode(m, "bs_metadata")),
            body |-> NewIHMessage(Port, currentIH, rev)]}
    /\ UNCHANGED peers

\* Messages a peer task delivers: the nil sentinel, or the bytes of a frame:
\* how many there are (len, 2 standing for two or more), byte 0 (type),
\* byte 1 (sub) and what a bencode decoder makes of the rest (body).
NoBody == [ok |-> FALSE, m |-> NoExtensions, infohash |-> "", port |-> 0]
NilMessage == [nil |-> TRUE, len |-> 0, type |-> 0, sub |-> 0, body |-> NoBody]
KeepAliveMessage == [NilMessage EXCEPT !.nil = FALSE]
TypeOnly(t) == [KeepAliveMessage EXCEPT !.len = 1, !.type = t]
Frame(t, sub, body) ==
    [nil |-> FALSE, len |-> 2, type |-> t, sub |-> sub, body |-> body]
HandshakeMessage(m) ==
    Frame(EXTENSION, EXTENSION_HANDSHAKE, [NoBody EXCEPT !.ok = TRUE, !.m = m])
MetadataMessage(ih, port) ==
    Frame(EXTENSION, 2, [NoBody EXCEPT !.ok = TRUE, !.infohash = ih, !.port = port])
\* The ports and info-hashes remote IHMessages carry.
RemotePorts == {0, 7000}
RemoteIHs == {""} \cup InfoHashes
\* The messages other than the sentinel and a decodable extension handshake.
OtherMessages ==
    {KeepAliveMessage, TypeOnly(EXTENSION), TypeOnly(1), Frame(1, 0, NoBody),
     Frame(EXTENSION, EXTENSION_HANDSHAKE, NoBody),
     Frame(EXTENSION, 1, NoBody), Frame(EXTENSION, 2, NoBody),
     Frame(EXTENSION, 9, NoBody)}
    \cup {MetadataMessage(ih, port) : ih \in RemoteIHs, port \in RemotePorts}

\* The handler returned nil: nothing else changes.
Handled == UNCHANGED <<peers, conns, frames, loopPc, pending>>
\* The handler returned an error: Run closes the peer.
Closed(c) == ClosePeer(c) /\ UNCHANGED <<frames, loopPc, pending>>

\* DoMetadata's test of the message against the current info-hash, dropped.
IsNews_Always(cur, ih) == TRUE

\* DoMetadata: is the message about another info-hash than ours?
IsNews(cur, ih) == cur # ih

\* ControlSession.DoMetadata: the send on cs.Torrents has no buffer, so the
\* loop stays in it until the application receives.
DoMetadata(c, body) ==
    IF ~body.ok THEN Closed(c)
    ELSE IF body.infohash = "" \/ body.port = 0 THEN Handled
    ELSE IF IsNews(currentIH, body.infohash)
         THEN /\ pending' = Announce(body.infohash, conns[c].addr, body.port)
              /\ loopPc' = "send_torrents"
              /\ UNCHANGED <<peers, conns, frames>>
         ELSE Handled

\* ControlSession.DoPex
DoPex(c, body) == Handled

\* ControlSession.DoOther
DoOther(c, sub, body) ==
    IF sub \in DOMAIN OurExtensions
    THEN IF OurExtensions[sub] = "bs_metadata" THEN DoMetadata(c, body)
         ELSE IF OurExtensions[sub] = "ut_pex" THEN DoPex(c, body)
         ELSE Closed(c)
    ELSE Closed(c)

\* ControlSession.DoMessage and what Run does with its result. message[1]
\* is read whatever the length: on a frame of one byte the index is out of
\* range and the process panics.
DoMessage(c, message) ==
    IF message.nil THEN Closed(c)
    ELSE IF message.len = 0 THEN Handled
    ELSE IF message.type # EXTENSION THEN Closed(c)
    ELSE IF message.len < 2
         THEN loopPc' = "panicked" /\ UNCHANGED <<peers, conns, frames, pending>>
    ELSE IF message.sub = EXTENSION_HANDSHAKE
         THEN IF message.body.ok
              THEN DoHandshake(c, message.body.m) /\ UNCHANGED <<loopPc, pending>>
              ELSE Closed(c)
    ELSE DoOther(c, message.sub, message.body)

\* case pm := <-cs.peerMessageChan
LoopPeerMessage(c, message) ==
    /\ loopPc = "select"
    /\ conns[c].pc = "live"
    /\ lastReadTime' = [lastReadTime EXCEPT ![c] = now]
    /\ DoMessage(c, message)
    /\ UNCHANGED <<currentIH, rev, currentFile, nconn, callerPc, callerIh, nSet,
                   rev0, prevFile, acceptor, now, kicked, torrents, hbChan,
                   tickDue, detPc, lastHeartbeat, timerStart, missed>>
    /\ UNCHANGED <<assigned, fsVars, pathVars, metaVars>>

\* case pm := <-cs.peerMessageChan: the nil sentinel of a peer task.
LoopPeerClosed(c) == LoopPeerMessage(c, NilMessage)

\* case pm := <-cs.peerMessageChan: an extension handshake carrying m.
LoopPeerHandshake(c, m) == LoopPeerMessage(c, HandshakeMessage(m))

\* The application receives from cs.Torrents: DoMetadata's send completes and
\* the loop returns to its select.
AppReceive ==
    /\ loopPc = "send_torrents"
    /\ torrents' = torrents \cup {pending}
    /\ pending' = NoAnnounce
    /\ loopPc' = "select"
    /\ UNCHANGED <<peers, currentIH, rev, currentFile, conns, nconn, acceptor,
                   frames, callerPc, callerIh, nSet, rev0, prevFile, now,
                   lastReadTime, kicked, hbChan, tickDue, detPc, lastHeartbeat,
                   timerStart, missed>>
    /\ UNCHANGED <<assigned, fsVars, pathVars, metaVars>>

(***************************************************************************)
(* Connector and accept tasks                                              *)
(***************************************************************************)
\* connectToPeer up to the call of AddPeer: dial, send our header, read
\* theirs; ok is whether all three succeed.
ConnectToPeer(c, ok, id) ==
    /\ conns[c].pc = "connect"
    /\ conns' = [conns EXCEPT ![c] =
          IF ~ok \/ id = PeerID THEN Done
          ELSE [@ EXCEPT !.pc = "dedup", !.id = id]]
    /\ UNCHANGED <<peers, currentIH, rev, currentFile, nconn, frames, loopPc,
                   callerPc, callerIh, nSet, rev0, prevFile, acceptor>>
    /\ UNCHANGED <<assigned, fsVars, pathVars, metaVars, loopVars>>

\* AcceptNewPeer up to the call of AddPeer: an inbound connection from a,
\* whose header carried id; ok is whether our header could be written. The
\* accepting goroutine admits one connection at a time.
AcceptNewPeer(a, ok, id) ==
    /\ nconn < MaxConns
    /\ acceptor = 0
    /\ conns' = [conns EXCEPT ![nconn + 1] =
          IF ok THEN [Unused EXCEPT !.addr = a, !.id = id, !.pc = "dedup"]
          ELSE Done]
    /\ nconn' = nconn + 1
    /\ acceptor' = IF ok THEN nconn + 1 ELSE 0
    /\ UNCHANGED <<peers, currentIH, rev, currentFile, frames, loopPc, callerPc,
                   callerIh, nSet, rev0, prevFile>>
    /\ UNCHANGED <<assigned, fsVars, pathVars, metaVars, loopVars>>

\* AddPeer has returned for connection c: the accepting goroutine is free.
Returned(c) == acceptor' = IF acceptor = c THEN 0 ELSE acceptor

\* AddPeer: the scan of the table for the remote peer-id.
AddPeerDedup(c) ==
    /\ conns[c].pc = "dedup"
    /\ IF \E a \in DOMAIN peers : conns[peers[a]].id = conns[c].id
       THEN conns' = [conns EXCEPT ![c] = Done] /\ Returned(c)
       ELSE conns' = [conns EXCEPT ![c].pc = "cap"] /\ UNCHANGED acceptor
    /\ UNCHANGED <<peers, currentIH, rev, currentFile, nconn, frames, loopPc,
                   callerPc, callerIh, nSet, rev0, prevFile>>
    /\ UNCHANGED <<assigned, fsVars, pathVars, metaVars, loopVars>>

\* AddPeer: the test of the table's size.
AddPeerCap(c) ==
    /\ conns[c].pc = "cap"
    /\ IF Cardinality(DOMAIN peers) >= MAX_NUM_PEERS
       THEN conns' = [conns EXCEPT ![c] = Done] /\ Returned(c)
       ELSE conns' = [conns EXCEPT ![c].pc = "insert"] /\ UNCHANGED acceptor
    /\ UNCHANGED <<peers, currentIH, rev, currentFile, nconn, frames, loopPc,
                   callerPc, callerIh, nSet, rev0, prevFile>>
    /\ UNCHANGED <<assigned, fsVars, pathVars, metaVars, loopVars>>

\* AddPeer: the insert, the peer tasks and our extension handshake, sent when
\* their header has the extension bit (extbit).
AddPeerInsert(c, extbit) ==
    /\ conns[c].pc = "insert"
    /\ peers' = [a \in (DOMAIN peers) \cup {conns[c].addr} |->
                    IF a = conns[c].addr THEN c ELSE peers[a]]
    /\ conns' = [conns EXCEPT ![c].pc = "live"]
    /\ frames' = IF extbit THEN frames \cup {ExtHandshakeFrame(c)}
                 ELSE frames
    /\ Returned(c)
    /\ UNCHANGED <<currentIH, rev, currentFile, nconn, loopPc, callerPc,
                   callerIh, nSet, rev0, prevFile>>
    /\ UNCHANGED <<assigned, fsVars, pathVars, metaVars, loopVars>>

(***************************************************************************)
(* The caller of SetCurrent and Quit                                       *)
(***************************************************************************)
\* SetCurrent: cs.currentIH = ih
SetCurrentIH(ih) ==
    /\ callerPc = "idle"
    /\ nSet < MaxSetCurrent
    /\ currentIH' = ih
    /\ callerIh' = ih
    /\ prevFile' = currentFile
    /\ callerPc' = "sc_rev"
    /\ UNCHANGED <<peers, rev, currentFile, conns, nconn, frames, loopPc, nSet, rev0, acceptor>>
    /\ UNCHANGED <<assigned, fsVars, pathVars, metaVars, loopVars>>

\* SetCurrent: parse cs.rev, increment the counter, set cs.rev
SetCurrentRev(h) ==
    /\ callerPc = "sc_rev"
    /\ rev' = NextRev(rev, h)
    /\ assigned' = assigned \cup {<<currentIH, NextRev(rev, h)>>}
    /\ callerPc' = "sc_create"
    /\ UNCHANGED <<peers, currentIH, currentFile, conns, nconn, frames, loopPc,
                   callerIh, nSet, rev0, prevFile, acceptor>>
    /\ UNCHANGED <<fsVars, pathVars, metaVars, loopVars>>

\* SetCurrent: os.Create of the current file, which truncates it
SetCurrentCreate ==
    /\ callerPc = "sc_create"
    /\ currentFile' = EmptyFile
    /\ callerPc' = "sc_encode"
    /\ UNCHANGED <<peers, currentIH, rev, conns, nconn, frames, loopPc,
                   callerIh, nSet, rev0, prevFile, acceptor>>
    /\ UNCHANGED <<assigned, fsVars, pathVars, metaVars, loopVars>>

\* SetCurrent: the IHMessage is encoded into the file
SetCurrentEncode ==
    /\ callerPc = "sc_encode"
    /\ currentFile' = MsgFile(NewIHMessage(Port, currentIH, rev))
    /\ callerPc' = "sc_broadcast"
    /\ UNCHANGED <<peers, currentIH, rev, conns, nconn, frames, loopPc,
                   callerIh, nSet, rev0, prevFile, acceptor>>
    /\ UNCHANGED <<assigned, fsVars, pathVars, metaVars, loopVars>>

\* ControlSession.broadcast: the frames it queues
broadcast(ih) ==
    {ihMessage(ih, peers[a]) :
        a \in {x \in DOMAIN peers :
                  HasExt(conns[peers[x]].theirExtensions, "bs_metadata")}}

\* SetCurrent: cs.broadcast(ih), and the return
SetCurrentBroadcast ==
    /\ callerPc = "sc_broadcast"
    /\ frames' = frames \cup broadcast(callerIh)
    /\ callerPc' = "idle"
    /\ nSet' = nSet + 1
    /\ UNCHANGED <<peers, currentIH, rev, currentFile, conns, nconn, loopPc,
                   callerIh, rev0, prevFile, acceptor>>
    /\ UNCHANGED <<assigned, fsVars, pathVars, metaVars, loopVars>>

\* Quit: the send on cs.quit, which the loop receives in its select; the loop
\* goes on to its send on quitDeadlock.
QuitSend ==
    /\ callerPc = "idle"
    /\ loopPc = "select"
    /\ loopPc' = "quit_deadlock"
    /\ callerPc' = "quit_close"
    /\ UNCHANGED <<peers, currentIH, rev, currentFile, conns, nconn, frames,
                   callerIh, nSet, rev0, prevFile, acceptor>>
    /\ UNCHANGED <<assigned, fsVars, pathVars, metaVars, loopVars>>

\* case <-cs.quit: the send on quitDeadlock, which has no buffer, completes
\* when the detector receives it in its select; the detector leaves its loop
\* and Run returns.
LoopQuitDeadlock ==
    /\ loopPc = "quit_deadlock"
    /\ detPc = "select"
    /\ detPc' = "stopped"
    /\ loopPc' = "exited"
    /\ UNCHANGED <<peers, currentIH, rev, currentFile, conns, nconn, frames,
                   callerPc, callerIh, nSet, rev0, prevFile, acceptor>>
    /\ UNCHANGED <<now, lastReadTime, kicked, pending, torrents, hbChan, tickDue,
                   lastHeartbeat, timerStart, missed>>
    /\ UNCHANGED <<assigned, fsVars, pathVars, metaVars>>

\* Quit: ClosePeer for every peer of the table, then dht.Stop
QuitClosePeers ==
    /\ callerPc = "quit_close"
    /\ conns' = [c \in 1..MaxConns |->
                    IF \E a \in DOMAIN peers : peers[a] = c
                    THEN [conns[c] EXCEPT !.pc = "closed"] ELSE conns[c]]
    /\ peers' = <<>>
    /\ callerPc' = "done"
    /\ UNCHANGED <<currentIH, rev, currentFile, nconn, frames, loopPc,
                   callerIh, nSet, rev0, prevFile, acceptor>>
    /\ UNCHANGED <<assigned, fsVars, pathVars, metaVars, loopVars>>

\* The process stops at any point and is started again: NewControlSession
\* over the current file as it was left.
Restart ==
    /\ peers' = <<>>
    /\ currentIH' = DecodeCurrent(currentFile).infohash
    /\ rev' = RestoreRev(DecodeCurrent(currentFile).rev)
    /\ rev0' = RestoreRev(DecodeCurrent(currentFile).rev)
    /\ conns' = [c \in 1..MaxConns |-> Unused]
    /\ nconn' = 0
    /\ acceptor' = 0
    /\ frames' = {}
    /\ loopPc' = "select"
    /\ callerPc' = "idle"
    /\ callerIh' = ""
    /\ nSet' = 0
    /\ prevFile' = currentFile
    /\ lastReadTime' = [c \in 1..MaxConns |-> 0]
    /\ kicked' = {}
    /\ pending' = NoAnnounce
    /\ torrents' = {}
    /\ hbChan' = 0
    /\ tickDue' = FALSE
    /\ detPc' = "select"
    /\ lastHeartbeat' = now
    /\ timerStart' = now
    /\ missed' = FALSE
    /\ assigned' = {<<DecodeCurrent(currentFile).infohash,
                      RestoreRev(DecodeCurrent(currentFile).rev)>>}
    /\ UNCHANGED <<currentFile, now>>
    /\ UNCHANGED <<fsVars, pathVars, metaVars>>

NextPeers ==
    \/ \E a \in Addrs : LoopNewPeer(a)
    \/ \E c \in 1..MaxConns : LoopPeerClosed(c)
    \/ \E c \in 1..MaxConns : \E ok \in BOOLEAN : \E id \in RemoteIDs :
          ConnectToPeer(c, ok, id)
    \/ \E a \in Addrs : \E ok \in BOOLEAN : \E id \in RemoteIDs :
          AcceptNewPeer(a, ok, id)
    \/ \E c \in 1..MaxConns : AddPeerDedup(c)
    \/ \E c \in 1..MaxConns : AddPeerCap(c)
    \/ \E c \in 1..MaxConns : \E extbit \in BOOLEAN : AddPeerInsert(c, extbit)
    \/ QuitSend
    \/ LoopQuitDeadlock
    \/ QuitClosePeers

\* Peer admission and shutdown: the loop, the connector and accept tasks, Quit.
SpecPeers == Init /\ [][NextPeers]_vars

(***************************************************************************)
(* The revision across SetCurrent calls and restarts                       *)
(***************************************************************************)
\* Revisions a current file may hold at a start: written by SetCurrent in an
\* earlier run.
StoredRevs == {<<"1", "2", "-", "a", "3">>}
StoredFiles ==
    {NoFile} \cup {MsgFile(NewIHMessage(Port, "ih1", r)) : r \in StoredRevs}

InitRev == (\E f \in StoredFiles : Construct(f)) /\ NoStore

NextRevision ==
    \/ \E ih \in InfoHashes : SetCurrentIH(ih)
    \/ \E h \in Digests : SetCurrentRev(h)
    \/ SetCurrentCreate
    \/ SetCurrentEncode
    \/ SetCurrentBroadcast
    \/ Restart

SpecRev == InitRev /\ [][NextRevision]_vars

(***************************************************************************)
(* Messages from admitted peers                                            *)
(***************************************************************************)
\* The session once two peers have been admitted, from addresses 1 and 2
\* with ids "p1" and "p2", before either has sent a message; it started with
\* or without a current info-hash.
TwoPeers(f) ==
    /\ peers = (1 :> 1) @@ (2 :> 2)
    /\ conns = [c \in 1..MaxConns |->
                  IF c = 1 THEN [Unused EXCEPT !.addr = 1, !.id = "p1", !.pc = "live"]
                  ELSE IF c = 2
                  THEN [Unused EXCEPT !.addr = 2, !.id = "p2", !.pc = "live"]
                  ELSE Unused]
    /\ nconn = 2
    /\ currentIH = DecodeCurrent(f).infohash
    /\ rev = RestoreRev(DecodeCurrent(f).rev)
    /\ rev0 = RestoreRev(DecodeCurrent(f).rev)
    /\ currentFile = f
    /\ acceptor = 0
    /\ frames = {}
    /\ loopPc = "select"
    /\ callerPc = "idle"
    /\ callerIh = ""
    /\ nSet = 0
    /\ prevFile = f
    /\ now = 1
    /\ lastReadTime = [c \in 1..MaxConns |-> 0]
    /\ kicked = {}
    /\ pending = NoAnnounce
    /\ torrents = {}
    /\ hbChan = 0
    /\ tickDue = FALSE
    /\ detPc = "select"
    /\ lastHeartbeat = 1
    /\ timerStart = 1
    /\ missed = FALSE
    /\ assigned = {<<DecodeCurrent(f).infohash, RestoreRev(DecodeCurrent(f).rev)>>}

InitMsg == (\E f \in StoredFiles : TwoPeers(f)) /\ NoStore

\* The peers send messages; the application receives from cs.Torrents.
NextMsg ==
    \/ \E c \in 1..MaxConns : LoopPeerClosed(c)
    \/ \E c \in 1..MaxConns : \E m \in ExtMaps : LoopPeerHandshake(c, m)
    \/ \E c \in 1..MaxConns : \E message \in OtherMessages :
          LoopPeerMessage(c, message)
    \/ AppReceive

SpecMsg == InitMsg /\ [][NextMsg]_vars

(***************************************************************************)
(* The keep-alive tick                                                     *)
(***************************************************************************)
\* The longest run considered, in minutes.
MaxMinutes == 5
\* Stretches of time between two events, in seconds.
Delays == {59, 60, 181}

\* d seconds pass in which the loop serves its 1-second re-choke ticks: the
\* detector has just received a heartbeat and re-armed its timer.
Elapse(d) ==
    /\ loopPc = "select"
    /\ detPc = "select"
    /\ now + d <= 60 * MaxMinutes
    /\ now' = now + d
    /\ lastHeartbeat' = now + d
    /\ timerStart' = now + d
    /\ UNCHANGED <<peers, currentIH, rev, currentFile, conns, nconn, acceptor,
                   frames, loopPc, callerPc, callerIh, nSet, rev0, prevFile,
                   lastReadTime, kicked, pending, torrents, hbChan, tickDue,
                   detPc, missed>>
    /\ UNCHANGED <<assigned, fsVars, pathVars, metaVars>>

\* The keep-alive tick's test of one peer.
TimedOut(c) ==
    Second(lastReadTime[c]) # 0 /\ now - lastReadTime[c] > KeepAliveTimeout

\* case <-keepAliveChan: every peer of the table is closed or told to emit a
\* keep-alive (peer.keepAlive); kicked is the set of those told on this tick.
LoopKeepAlive ==
    /\ loopPc = "select"
    /\ peers' = [a \in {b \in DOMAIN peers : ~TimedOut(peers[b])} |-> peers[a]]
    /\ conns' = [c \in 1..MaxConns |->
                    IF (\E a \in DOMAIN peers : peers[a] = c) /\ TimedOut(c)
                    THEN [conns[c] EXCEPT !.pc = "closed"] ELSE conns[c]]
    /\ kicked' = {peers[a] : a \in {b \in DOMAIN peers : ~TimedOut(peers[b])}}
    /\ UNCHANGED <<currentIH, rev, currentFile, nconn, acceptor, frames, loopPc,
                   callerPc, callerIh, nSet, rev0, prevFile, now, lastReadTime,
                   pending, torrents, hbChan, tickDue, detPc, lastHeartbeat,
                   timerStart, missed>>
    /\ UNCHANGED <<assigned, fsVars, pathVars, metaVars>>

NextKeepAlive ==
    \/ \E d \in Delays : Elapse(d)
    \/ \E c \in 1..MaxConns : LoopPeerMessage(c, KeepAliveMessage)
    \/ LoopKeepAlive

\* Two admitted peers that send keep-alives, and the keep-alive tick.
SpecKeepAlive == InitMsg /\ [][NextKeepAlive]_vars

(***************************************************************************)
(* The deadlock detector                                                   *)
(***************************************************************************)
\* The longest run considered, in seconds.
MaxTime == 18

\* A second passes. rechokeChan receives a tick (a tick the loop has not taken
\* is kept, the new one dropped: time.Tick's channel holds one). The detector
\* is always in its select, so a heartbeat in the channel is received and a
\* timer that has run out fires before the clock moves on.
ClockTick ==
    /\ now < MaxTime
    /\ loopPc # "panicked"
    /\ detPc # "panicked"
    /\ detPc = "select" => (hbChan = 0 /\ now - timerStart < DeadlockTimeout)
    /\ now' = now + 1
    /\ tickDue' = TRUE
    /\ missed' = (missed \/ tickDue)
    /\ UNCHANGED <<peers, currentIH, rev, currentFile, conns, nconn, acceptor,
                   frames, loopPc, callerPc, callerIh, nSet, rev0, prevFile,
                   lastReadTime, kicked, pending, torrents, hbChan, detPc,
                   lastHeartbeat, timerStart>>
    /\ UNCHANGED <<assigned, fsVars, pathVars, metaVars>>

\* case <-rechokeChan: the send on heartbeat, which holds one value, then
\* with fewer than TARGET_NUM_PEERS peers the send on trackerReportChan,
\* which has no buffer.
LoopRechoke ==
    /\ loopPc = "select"
    /\ tickDue
    /\ hbChan = 0
    /\ tickDue' = FALSE
    /\ hbChan' = 1
    /\ loopPc' = IF Cardinality(DOMAIN peers) < TARGET_NUM_PEERS
                 THEN "send_report" ELSE "select"
    /\ UNCHANGED <<peers, currentIH, rev, currentFile, conns, nconn, acceptor,
                   frames, callerPc, callerIh, nSet, rev0, prevFile, now,
                   lastReadTime, kicked, pending, torrents, detPc,
                   lastHeartbeat, timerStart, missed>>
    /\ UNCHANGED <<assigned, fsVars, pathVars, metaVars>>

\* The tracker client receives the report: the loop returns to its select.
TrackerReceive ==
    /\ loopPc = "send_report"
    /\ loopPc' = "select"
    /\ UNCHANGED <<peers, currentIH, rev, currentFile, conns, nconn, acceptor,
                   frames, callerPc, callerIh, nSet, rev0, prevFile>>
    /\ UNCHANGED <<assigned, fsVars, pathVars, metaVars, loopVars>>

\* The detector's timer after a heartbeat at t, left running from old.
TimerRestart_Keep(old, t) == old

\* The detector's timer after a heartbeat at t: the select is entered again
\* and time.After gives a new timer.
TimerRestart(old, t) == t

\* deadlockDetector: case <-heartbeat
DetectorHeartbeat ==
    /\ detPc = "select"
    /\ hbChan = 1
    /\ hbChan' = 0
    /\ lastHeartbeat' = now
    /\ timerStart' = TimerRestart(timerStart, now)
    /\ UNCHANGED <<peers, currentIH, rev, currentFile, conns, nconn, acceptor,
                   frames, loopPc, callerPc, callerIh, nSet, rev0, prevFile, now,
                   lastReadTime, kicked, pending, torrents, tickDue, detPc,
                   missed>>
    /\ UNCHANGED <<assigned, fsVars, pathVars, metaVars>>

\* deadlockDetector: case <-time.After(15 * time.Second), the panic
DetectorTimeout ==
    /\ detPc = "select"
    /\ now - timerStart >= DeadlockTimeout
    /\ detPc' = "panicked"
    /\ UNCHANGED <<peers, currentIH, rev, currentFile, conns, nconn, acceptor,
                   frames, loopPc, callerPc, callerIh, nSet, rev0, prevFile, now,
                   lastReadTime, kicked, pending, torrents, hbChan, tickDue,
                   lastHeartbeat, timerStart, missed>>
    /\ UNCHANGED <<assigned, fsVars, pathVars, metaVars>>

InitDetector == InitRev \/ InitMsg

NextDetector ==
    \/ ClockTick
    \/ LoopRechoke
    \/ TrackerReceive
    \/ DetectorHeartbeat
    \/ DetectorTimeout
    \/ QuitSend
    \/ LoopQuitDeadlock
    \/ QuitClosePeers

\* The loop's re-choke ticks, the detector and Quit, second by second.
SpecDetector == InitDetector /\ [][NextDetector]_vars

(***************************************************************************)
(* SetCurrent against the loop's extension handshakes                      *)
(***************************************************************************)
\* The most frames queued before the peers stop sending handshakes.
MaxFrames == 3

NextGossip ==
    \/ /\ Cardinality(frames) < MaxFrames
       /\ \E c \in 1..MaxConns : \E m \in ExtMaps : LoopPeerHandshake(c, m)
    \/ \E ih \in InfoHashes : SetCurrentIH(ih)
    \/ \E h \in Digests : SetCurrentRev(h)
    \/ SetCurrentCreate
    \/ SetCurrentEncode
    \/ SetCurrentBroadcast

\* Two admitted peers send their extension handshakes while the application
\* calls SetCurrent.
SpecGossip == InitMsg /\ [][NextGossip]_vars

(***************************************************************************)
(* A loop that serves every tick, its peers and the application            *)
(***************************************************************************)
\* A second passes for a loop that is never late by itself: when it is in
\* its select with a re-choke tick due, it serves the tick first.
PromptTick ==
    /\ ~(loopPc = "select" /\ tickDue)
    /\ ClockTick

NextStall ==
    \/ PromptTick
    \/ LoopRechoke
    \/ DetectorHeartbeat
    \/ DetectorTimeout
    \/ \E c \in 1..MaxConns : \E ih \in RemoteIHs : \E port \in RemotePorts :
          LoopPeerMessage(c, MetadataMessage(ih, port))
    \/ AppReceive

\* Two admitted peers send bs_metadata messages to a loop that serves its
\* ticks; the application receives from cs.Torrents when it chooses to.
SpecStall == InitMsg /\ [][NextStall]_vars

\* Every step of the session: the loop's cases, the connector and accept
\* tasks, SetCurrent, Quit, the detector, the clock and a restart.
Next ==
    \/ \E a \in Addrs : LoopNewPeer(a)
    \/ \E c \in 1..MaxConns : LoopPeerClosed(c)
    \/ \E c \in 1..MaxConns : \E m \in ExtMaps : LoopPeerHandshake(c, m)
    \/ \E c \in 1..MaxConns : \E ok \in BOOLEAN : \E id \in RemoteIDs :
          ConnectToPeer(c, ok, id)
    \/ \E a \in Addrs : \E ok \in BOOLEAN : \E id \in RemoteIDs :
          AcceptNewPeer(a, ok, id)
    \/ \E c \in 1..MaxConns : AddPeerDedup(c)
    \/ \E c \in 1..MaxConns : AddPeerCap(c)
    \/ \E c \in 1..MaxConns : \E extbit \in BOOLEAN : AddPeerInsert(c, extbit)
    \/ \E ih \in InfoHashes : SetCurrentIH(ih)
    \/ \E h \in Digests : SetCurrentRev(h)
    \/ SetCurrentCreate
    \/ SetCurrentEncode
    \/ SetCurrentBroadcast
    \/ QuitSend
    \/ LoopQuitDeadlock
    \/ QuitClosePeers
    \/ \E c \in 1..MaxConns : \E message \in OtherMessages :
          LoopPeerMessage(c, message)
    \/ AppReceive
    \/ LoopKeepAlive
    \/ ClockTick
    \/ LoopRechoke
    \/ TrackerReceive
    \/ DetectorHeartbeat
    \/ DetectorTimeout
    \/ Restart

\* The whole session.
Spec == Init /\ [][Next]_vars

(***************************************************************************)
(* The file store's operations                                             *)
(***************************************************************************)
Layouts == UNION {[1..k -> 0..MaxFileLen] : k \in 1..MaxFiles}
Buffers == UNION {[1..k -> Bytes] : k \in 1..MaxBuf}
\* A file found on disk before the store is built: none, or one of the
\* declared length.
PreExisting(lens) ==
    {pre \in [1..Len(lens) -> {"absent", "exact"}] : TRUE}
PreFs(lens, pre) ==
    LET present == {i \in 1..Len(lens) : pre[i] = "exact"}
    IN  [nm \in {<<BaseNames[i]>> : i \in present} |->
            Fill(lens[CHOOSE i \in present : <<BaseNames[i]>> = nm], 1)]

InitFS ==
    \E lens \in Layouts : \E pre \in PreExisting(lens) :
        LET st == NewFileStore(lens, PreFs(lens, pre))
        IN  /\ files = st.files
            /\ offsets = st.offsets
            /\ fsys = st.fs
            /\ lastOp = NoOp
            /\ NoPath
            /\ NoMeta
            /\ Construct(NoFile)

Offsets == 0..(TotalSize + 1)

DoWriteAt(p, off) ==
    /\ lastOp.op = "none"
    /\ LET r == WriteAt(files, offsets, fsys, p, off)
       IN  /\ fsys' = r.fs
           /\ lastOp' = [NoOp EXCEPT !.op = "WriteAt", !.off = off, !.buf = p,
                                     !.n = r.n, !.err = r.err]
    /\ UNCHANGED <<files, offsets>>
    /\ UNCHANGED <<csVars, pathVars, metaVars>>

DoReadAt(len, off) ==
    /\ \/ lastOp.op = "none"
       \/ lastOp.op = "WriteAt" /\ lastOp.off = off /\ Len(lastOp.buf) = len
    /\ LET r == ReadAt(files, offsets, fsys, len, off)
       IN  lastOp' = [NoOp EXCEPT !.op = "ReadAt", !.off = off, !.buf = r.buf,
                                  !.n = r.n, !.err = r.err,
                                  !.wrote = (lastOp.op = "WriteAt"),
                                  !.wbuf = IF lastOp.op = "WriteAt" THEN lastOp.buf
                                           ELSE <<>>]
    /\ UNCHANGED <<files, offsets, fsys>>
    /\ UNCHANGED <<csVars, pathVars, metaVars>>

DoSetBad(from) ==
    /\ lastOp.op = "none"
    /\ LET r == SetBad(files, offsets, fsys, from)
       IN  /\ files' = r.files
           /\ fsys' = r.fs
           /\ lastOp' = [NoOp EXCEPT !.op = "SetBad", !.off = from,
                                     !.prevNames = EntryNames, !.prevData = EntryData]
    /\ UNCHANGED offsets
    /\ UNCHANGED <<csVars, pathVars, metaVars>>

\* Cleanup, on a fresh store or after a write.
DoCleanup ==
    /\ lastOp.op \in {"none", "WriteAt"}
    /\ LET r == Cleanup(files, fsys)
       IN  /\ files' = r.files
           /\ fsys' = r.fs
           /\ lastOp' = [NoOp EXCEPT !.op = "Cleanup",
                                     !.prevNames = EntryNames, !.prevData = EntryData]
    /\ UNCHANGED offsets
    /\ UNCHANGED <<csVars, pathVars, metaVars>>

NextFS ==
    \/ \E p \in Buffers : \E off \in Offsets : DoWriteAt(p, off)
    \/ \E len \in 1..MaxBuf : \E off \in Offsets : DoReadAt(len, off)
    \/ \E from \in Offsets : DoSetBad(from)
    \/ DoCleanup

SpecFS == InitFS /\ [][NextFS]_vars

(***************************************************************************)
(* The backing path of one entry: NewFileStore's loop body for one         *)
(* FileDict. A path is the sequence of its components; a component that    *)
(* holds slashes is, once joined, the same as its pieces in a row, and an  *)
(* absolute component starts with an empty piece.                          *)
(***************************************************************************)
MaxPath == 3
PathAtoms == {"..", ".", "", "a", "b"}
SrcPaths == UNION {[1..k -> PathAtoms] : k \in 1..MaxPath}
\* storePath, clean and absolute.
StoreRoot == <<"srv", "store">>

\* path.Clean over components. rooted: the path starts with "/". Empty and
\* "." components are dropped, ".." removes the component before it, is
\* dropped at the root and is kept at the start of a relative path.
RECURSIVE CleanLoop(_, _, _)
CleanLoop(rooted, comps, out) ==
    IF comps = <<>> THEN out
    ELSE LET c == Head(comps)
             rest == Tail(comps)
         IN  IF c = "" \/ c = "." THEN CleanLoop(rooted, rest, out)
             ELSE IF c = ".."
                  THEN IF out # <<>> /\ out[Len(out)] # ".."
                       THEN CleanLoop(rooted, rest, SubSeq(out, 1, Len(out) - 1))
                       ELSE IF rooted THEN CleanLoop(rooted, rest, out)
                       ELSE CleanLoop(rooted, rest, Append(out, ".."))
                  ELSE CleanLoop(rooted, rest, Append(out, c))

\* path.Clean: an empty relative result is ".".
Clean(rooted, comps) ==
    LET out == CleanLoop(rooted, comps, <<>>)
    IN  IF ~rooted /\ out = <<>> THEN <<".">> ELSE out

\* path.Join of relative elements: empty elements are ignored, the rest is
\* cleaned; all empty gives the empty string.
Join(elems) ==
    IF \A i \in 1..Len(elems) : elems[i] = "" THEN <<>>
    ELSE Clean(FALSE, elems)

\* path.Clean("/" + path.Join(src.Path...))[1:]
CleanSrcPath(path) == Clean(TRUE, Join(path))

\* path.Join(storePath, cleanSrcPath)
FullPath(path) == Clean(TRUE, StoreRoot \o CleanSrcPath(path))

\* ensureDirectory: the directory it makes, the base of the full path.
ensureDirectory(fullPath) ==
    IF fullPath = <<>> THEN <<>> ELSE SubSeq(fullPath, 1, Len(fullPath) - 1)

InitPath ==
    /\ srcPath \in SrcPaths
    /\ backing = [dir |-> <<>>, name |-> <<>>, done |-> FALSE]
    /\ files = <<>> /\ offsets = <<>> /\ fsys = <<>> /\ lastOp = NoOp
    /\ NoMeta
    /\ Construct(NoFile)

\* One turn of NewFileStore's loop: the directory is made and the entry is
\* opened, on a disk that holds no file yet or the final file already.
OpenEntry(length, there) ==
    /\ ~backing.done
    /\ LET fullPath == FullPath(srcPath)
           fs0 == IF there THEN PutFile(<<>>, fullPath, Fill(length, 0)) ELSE <<>>
       IN  backing' = [dir |-> ensureDirectory(fullPath),
                       name |-> open(fs0, fullPath, length).fe.name,
                       done |-> TRUE]
    /\ UNCHANGED <<srcPath, fsVars, csVars, metaVars>>

\* The caller turns to another FileDict.
NextEntry(path) ==
    /\ backing.done
    /\ srcPath' = path
    /\ backing' = [dir |-> <<>>, name |-> <<>>, done |-> FALSE]
    /\ UNCHANGED <<fsVars, csVars, metaVars>>

NextPath ==
    \/ \E length \in 0..MaxFileLen : \E there \in BOOLEAN : OpenEntry(length, there)
    \/ \E path \in SrcPaths : NextEntry(path)

SpecPath == InitPath /\ [][NextPath]_vars

(***************************************************************************)
(* Metainfo parsing, NewMetaInfoFromContent. A content is what the bencode *)
(* decoder makes of it: whether it is bencode at all, whether it has an    *)
(* info dictionary, and the fields of that dictionary (a missing integer   *)
(* decodes as 0, pieces is kept as its length in bytes).                   *)
(***************************************************************************)
MaxPieceLength == 3
PiecesLens == {0, 1, 19, 20, 21, 39, 40}
InfoDicts == [nil : {FALSE}, PieceLength : 0..MaxPieceLength, Pieces : PiecesLens]
Contents ==
    {[bencode |-> FALSE, info |-> NilInfo, announce |-> ""]}
    \cup [bencode : {TRUE}, info : InfoDicts \cup {NilInfo}, announce : {"", "tr"}]

\* sha1 of the encoded info dictionary, kept as a token.
HashOf(info) == "sha1"

\* NewMetaInfoFromContent. encodes: whether bencode's Encode accepts m1.Info;
\* it does for a dictionary, and for a nil pointer the library decides. When
\* Encode fails the function returns through the bare "return", with m and
\* err both unset.
NewMetaInfoFromContent(c, encodes) ==
    IF ~c.bencode THEN [done |-> TRUE, m |-> NilMeta, err |-> TRUE]
    ELSE IF ~encodes THEN [done |-> TRUE, m |-> NilMeta, err |-> FALSE]
    ELSE [done |-> TRUE,
          m |-> [nil |-> FALSE, Info |-> c.info, Announce |-> c.announce,
                 InfoHash |-> HashOf(c.info)],
          err |-> FALSE]

InitMeta ==
    /\ torrent \in Contents
    /\ metaInfo = NotParsed
    /\ files = <<>> /\ offsets = <<>> /\ fsys = <<>> /\ lastOp = NoOp
    /\ NoPath
    /\ Construct(NoFile)

Parse(encodes) ==
    /\ ~metaInfo.done
    /\ encodes \/ torrent.info.nil
    /\ metaInfo' = NewMetaInfoFromContent(torrent, encodes)
    /\ UNCHANGED <<torrent, fsVars, csVars, pathVars>>

\* The caller turns to another content.
NextContent(c) ==
    /\ metaInfo.done
    /\ torrent' = c
    /\ metaInfo' = NotParsed
    /\ UNCHANGED <<fsVars, csVars, pathVars>>

NextMeta ==
    \/ \E encodes \in BOOLEAN : Parse(encodes)
    \/ \E c \in Contents : NextContent(c)

SpecMeta == InitMeta /\ [][NextMeta]_vars

(***************************************************************************)
(* Control session claims                                                  *)
(***************************************************************************)
\* C1: the peer table never holds more than MAX_NUM_PEERS entries.
C1_PeerCap == Cardinality(DOMAIN peers) <= MAX_NUM_PEERS

\* C2: no two entries of the peer table carry the same remote peer-id.
C2_UniquePeerId ==
    \A a, b \in DOMAIN peers :
        a # b => conns[peers[a]].id # conns[peers[b]].id

\* C3: no entry of the peer table carries the session's own PeerID, whether
\* the connection was made (connectToPeer) or accepted (AcceptNewPeer).
C3_NoSelfEntry == \A a \in DOMAIN peers : conns[peers[a]].id # PeerID

\* A step of the event-loop task.
LoopStep ==
    \/ \E a \in Addrs : LoopNewPeer(a)
    \/ \E c \in 1..MaxConns : LoopPeerClosed(c)
    \/ \E c \in 1..MaxConns : \E m \in ExtMaps : LoopPeerHandshake(c, m)

\* C4: while the event loop is running, every step that changes the peer
\* table, currentIH or rev is a step of the event loop.
C4_LoopOwnsState ==
    [][(/\ loopPc = "select"
        /\ (peers' # peers \/ currentIH' # currentIH \/ rev' # rev))
           => LoopStep]_vars

\* The counter of a revision "<counter>-<hash>"; -1 if it has no such form.
CounterOf(r) ==
    LET parts == Split(r, "-")
    IN  IF Len(parts) = 2 /\ AllDigits(parts[1]) THEN DigitsVal(parts[1], 0)
        ELSE 0 - 1
IsRevForm(r) ==
    LET parts == Split(r, "-")
    IN  Len(parts) = 2 /\ AllDigits(parts[1]) /\ IsHex(parts[2])

\* SetCurrent has written cs.rev and has not returned yet.
RevWritten == callerPc \in {"sc_create", "sc_encode", "sc_broadcast"}

\* C5: starting from rev = "0-", the counter of rev is the number of
\* SetCurrent calls made: one more per call, never less.
C5_RevCounter ==
    rev0 = ZeroRev =>
        CounterOf(rev) = nSet + (IF RevWritten THEN 1 ELSE 0)

\* Two SetCurrent calls have returned since a start from "0-".
C5_Witness ==
    /\ rev0 = ZeroRev /\ nSet = 2 /\ callerPc = "idle"
    /\ CounterOf(rev) = 2

\* C6: a session constructed over a current file starts from the file's
\* revision if that has the form "<int>-<hex>", and from "0-" otherwise.
C6_RestoredRev ==
    (nSet = 0 /\ callerPc = "idle")
        => rev = (IF currentFile.kind = "msg" /\ IsRevForm(currentFile.msg.rev)
                  THEN currentFile.msg.rev ELSE ZeroRev)

\* C7: at every step of SetCurrent the current file is the complete previous
\* one or the complete new message.
C7_AtomicPersist ==
    callerPc \in {"sc_rev", "sc_create", "sc_encode", "sc_broadcast"}
        => \/ currentFile = prevFile
           \/ currentFile = MsgFile(NewIHMessage(Port, currentIH, rev))

(***************************************************************************)
(* File store claims                                                       *)
(***************************************************************************)
InRange(off, len) == off + len <= TotalSize
\* An entry boundary lies strictly inside [off, off+len).
SpansEntries(off, len) ==
    \E i \in 2..Len(offsets) : offsets[i] > off /\ offsets[i] < off + len

Beyond(off, len) == {k \in 1..len : off + k - 1 >= TotalSize}

Containing(o) ==
    {i \in 1..Len(files) : offsets[i] <= o /\ o < offsets[i] + files[i].length}

\* C10: SetBad(fromOffset) stages exactly the entries from the one containing
\* fromOffset through the last, each keeping its length and contents; every
\* entry wholly before fromOffset (an entry with bytes, all of them before
\* fromOffset) keeps its state and backing path.
C10_SetBadFrame ==
    (lastOp.op = "SetBad" /\ Containing(lastOp.off) # {})
        => \A i \in 1..Len(files) :
              /\ (\E c \in Containing(lastOp.off) : i >= c)
                    => /\ isPart(files[i])
                       /\ EntryData[i] = lastOp.prevData[i]
                       /\ Len(EntryData[i]) = files[i].length
              /\ (files[i].length > 0 /\ offsets[i] + files[i].length <= lastOp.off)
                    => files[i].name = lastOp.prevNames[i]

\* C11: after Cleanup every entry that was staging is final: the entry names
\* the file without the .part suffix, that file holds the entry's contents
\* and the .part file is gone.
C11_CleanupFinal ==
    lastOp.op = "Cleanup"
        => \A i \in 1..Len(files) :
              /\ ~isPart(files[i])
              /\ Exists(fsys, files[i].name)
              /\ fsys[files[i].name] = lastOp.prevData[i]
              /\ ~Exists(fsys, lastOp.prevNames[i]) \/ lastOp.prevNames[i] = files[i].name

\* The file a backing name stands for: the name without its .part suffix.
FinalName(name) ==
    IF name # <<>> /\ name[Len(name)] = PartSuffix
    THEN SubSeq(name, 1, Len(name) - 1) ELSE name
\* The file of that name lies in the store root or in a directory below it.
UnderRoot(name) ==
    LET f == FinalName(name)
    IN  /\ Len(f) > Len(StoreRoot)
        /\ SubSeq(f, 1, Len(StoreRoot)) = StoreRoot
        /\ \A i \in 1..Len(f) : f[i] \notin {"..", ".", ""}

\* C12: whatever the components of src.Path, the backing file NewFileStore
\* creates or opens lies under the store root.
C12_UnderRoot == backing.done => UnderRoot(backing.name)

\* The failures the format names: not bencode, no info dictionary, no piece
\* length, pieces not a multiple of 20 bytes.
Malformed(c) ==
    \/ ~c.bencode
    \/ c.info.nil
    \/ c.info.PieceLength = 0
    \/ c.info.Pieces % 20 # 0

\* C15: parsing a malformed content returns a parse error and no MetaInfo.
C15_ParseErrors ==
    (metaInfo.done /\ Malformed(torrent)) => (metaInfo.err /\ metaInfo.m.nil)

\* C14: on a bs_metadata IHMessage from peer c, the loop sends an Announce on
\* Torrents iff the info-hash is non-empty, the port non-zero and the
\* info-hash is not currentIH; the Announce holds that info-hash, c's observed
\* address and the advertised port, and is what the application receives. A
\* message for currentIH sends nothing and leaves currentIH, rev and the peer
\* table as they were.
C14_Announce ==
    [][/\ \A c \in 1..MaxConns : \A ih \in RemoteIHs : \A port \in RemotePorts :
            LoopPeerMessage(c, MetadataMessage(ih, port))
               => /\ (ih # "" /\ port # 0 /\ ih # currentIH)
                        => pending' = Announce(ih, conns[c].addr, port)
                  /\ ~(ih # "" /\ port # 0 /\ ih # currentIH)
                        => (pending' = NoAnnounce /\ loopPc' = "select")
                  /\ ih = currentIH
                        => (currentIH' = currentIH /\ rev' = rev /\ peers' = peers)
       /\ torrents' # torrents
            => (~pending.none /\ torrents' = torrents \cup {pending})]_vars

\* The application has received an Announce for another info-hash than the
\* session's, with the sender's address and a port that is not our own.
C14_Witness ==
    /\ currentIH # ""
    /\ \E a \in torrents :
          /\ a.infohash \in InfoHashes \ {currentIH}
          /\ a.ip \in DOMAIN peers
          /\ a.port = 7000

\* The messages C16 lists: the nil sentinel, a keep-alive, a non-EXTENSION
\* type, an unknown extension sub-identifier, an undecodable extension
\* handshake, and an EXTENSION frame of its type byte alone.
ListedMessages ==
    {NilMessage, KeepAliveMessage, TypeOnly(1), Frame(1, 0, NoBody),
     Frame(EXTENSION, 9, NoBody), Frame(EXTENSION, EXTENSION_HANDSHAKE, NoBody),
     TypeOnly(EXTENSION)}

\* C16: on each delivered message of the listed kinds the loop returns to its
\* select, and the peer table is either unchanged or has lost exactly the
\* entry of the peer that delivered the message, which is then closed.
C16_HandleOrClose ==
    [][\A c \in 1..MaxConns : \A message \in ListedMessages :
          LoopPeerMessage(c, message)
             => /\ loopPc' = "select"
                /\ \/ peers' = peers /\ conns' = conns
                   \/ /\ conns' = [conns EXCEPT ![c].pc = "closed"]
                      /\ peers' = [a \in {b \in DOMAIN peers : peers[b] # c}
                                     |-> peers[a]]]_vars

\* C17: once Quit has returned, the event loop has exited, the deadlock
\* detector has stopped and the peer table is empty (in every later state, so it
\* stays empty).
C17_QuitDrains ==
    callerPc = "done"
       => (loopPc = "exited" /\ detPc = "stopped" /\ peers = <<>>)

\* C20: at most one outbound connection attempt to an address is in flight.
C20_OneConnector ==
    \A a \in Addrs :
        Cardinality({c \in 1..MaxConns :
                        conns[c].pc = "connect" /\ conns[c].addr = a}) <= 1

\* C18: on a keep-alive tick every peer of the table whose last-read time is
\* set and more than 3 minutes old is closed and leaves the table; every other
\* peer stays and is told to emit a keep-alive.
C18_KeepAliveTick ==
    [][LoopKeepAlive
         => \A a \in DOMAIN peers :
               IF /\ lastReadTime[peers[a]] # 0
                  /\ now - lastReadTime[peers[a]] > KeepAliveTimeout
               THEN /\ a \notin DOMAIN peers'
                    /\ conns'[peers[a]].pc = "closed"
               ELSE /\ a \in DOMAIN peers'
                    /\ peers'[a] = peers[a]
                    /\ conns'[peers[a]].pc = "live"
                    /\ peers[a] \in kicked']_vars

\* C19: the detector has aborted the process only if 15 seconds have passed
\* since the last heartbeat and the loop let a re-choke tick go by; and while
\* the detector runs, no more than 15 seconds have passed since the last
\* heartbeat (after 15 seconds without one it has aborted, or Quit stopped it).
C19_Detector ==
    /\ detPc = "panicked"
          => (now - lastHeartbeat >= DeadlockTimeout /\ missed)
    /\ detPc = "select" => now - lastHeartbeat <= DeadlockTimeout

\* The loop sent heartbeats, then stopped, and the detector aborted the
\* process 15 seconds after the last one.
C19_Witness ==
    /\ detPc = "panicked"
    /\ lastHeartbeat > 1
    /\ now - lastHeartbeat = DeadlockTimeout

\* C21: when the loop closes peer c on its sentinel, every table entry that
\* holds another peer than c, the one stored under c's address included,
\* stays in the table (stated for sessions whose connections carry peer-ids
\* that differ from ours and from one another).
C21_CloseOwnEntry ==
    [][\A c \in 1..MaxConns :
          (/\ LoopPeerClosed(c)
           /\ \A d \in 1..nconn : conns[d].id # PeerID
           /\ \A d, e \in 1..nconn : d # e => conns[d].id # conns[e].id)
             => \A a \in DOMAIN peers :
                   peers[a] # c => (a \in DOMAIN peers' /\ peers'[a] = peers[a])]_vars

\* A queued frame whose body is an IHMessage of ours (our extension handshake
\* carries none).
CarriesIH(fr) == fr.body.port = Port

\* C22: every IHMessage queued to a peer or written to the current file
\* pairs an info-hash with the rev that construction or SetCurrent gave it.
C22_Paired ==
    /\ \A fr \in frames :
          CarriesIH(fr) => <<fr.body.infohash, fr.body.rev>> \in assigned
    /\ currentFile.kind = "msg"
          => <<currentFile.msg.infohash, currentFile.msg.rev>> \in assigned

\* C23: a loop that serves its ticks whenever it is in its select is never
\* aborted by the deadlock detector, whatever its peers send and whether or
\* not the application receives from Torrents.
C23_NeverStalled == detPc # "panicked"

\* C24: every frame the session queues with an IHMessage of ours goes to a
\* peer whose remote-extensions table then contains "bs_metadata", and its
\* sub-identifier is not that of the extension handshake.
C24_OnlyMetadataPeers ==
    [][\A fr \in frames' \ frames :
          CarriesIH(fr)
             => /\ HasExt(conns'[fr.to].theirExtensions, "bs_metadata")
                /\ fr.sub # EXTENSION_HANDSHAKE]_vars

\* C13, for codes that fit the frame's one byte: on an extension handshake
\* whose m gives a code k in 0..255 to "bs_metadata", the peer's
\* remote-extensions table becomes m and the frame queued to the peer is
\* [EXTENSION][k] with an IHMessage of our current info-hash, port and rev.
C13_HandshakeReplyByte ==
    [][\A c \in 1..MaxConns : \A m \in ExtMaps :
          (/\ HasExt(m, "bs_metadata")
           /\ m["bs_metadata"] \in 0..255
           /\ LoopPeerHandshake(c, m))
             => LET reply == [to |-> c, type |-> EXTENSION, sub |-> m["bs_metadata"],
                              body |-> NewIHMessage(Port, currentIH, rev)]
                IN  /\ conns'[c].theirExtensions = m
                    /\ reply \in frames'
                    /\ frames' \ frames \subseteq {reply}]_vars

\* C13 as stated, for any code: on an extension handshake whose m gives
\* code k to "bs_metadata", the peer's remote-extensions table becomes m and
\* the frame queued to the peer is [EXTENSION][k] with an IHMessage of our
\* current info-hash, port and rev.
C13_HandshakeReply ==
    [][\A c \in 1..MaxConns : \A m \in ExtMaps :
          (HasExt(m, "bs_metadata") /\ LoopPeerHandshake(c, m))
             => LET reply == [to |-> c, type |-> EXTENSION, sub |-> m["bs_metadata"],
                              body |-> NewIHMessage(Port, currentIH, rev)]
                IN  /\ conns'[c].theirExtensions = m
                    /\ reply \in frames'
                    /\ frames' \ frames \subseteq {reply}]_vars

\* A peer has sent its handshake and the reply for a session that has a
\* current info-hash is queued under the code the peer chose.
C13_Witness ==
    \E c \in 1..MaxConns :
        /\ conns[c].pc = "live"
        /\ HasExt(conns[c].theirExtensions, "bs_metadata")
        /\ currentIH # ""
        /\ [to |-> c, type |-> EXTENSION,
            sub |-> conns[c].theirExtensions["bs_metadata"],
            body |-> NewIHMessage(Port, currentIH, rev)] \in frames
        /\ conns[c].theirExtensions["bs_metadata"] \in 1..255

====
